---- MODULE Spec2Model ----
(***************************************************************************)
(* The reference-guard layer of dashmap (src/mapref/one.rs and             *)
(* src/mapref/multiple.rs): Ref, RefMut, MappedRef, MappedRefMut, RefMulti *)
(* and RefMutMulti, each of which bundles a detached shard lock guard with *)
(* a key pointer and a value pointer into the shard's storage.             *)
(*                                                                         *)
(* A value is a buffer of bytes; a value pointer (&V, &mut T, ...) is the  *)
(* region [lo, hi) of the buffer of entry k it points at, so that reads    *)
(* and writes through a reference go to the stored entry itself.  The lock *)
(* of crate::lock is not part of these two files and is modelled from its  *)
(* description: a count of readers and a writer flag per shard.            *)
(*                                                                         *)
(* Each thread runs acquisitions one after the other: it looks an entry    *)
(* up, which locks the shard and hands it a Ref or a RefMut, transforms    *)
(* and uses what it holds, and drops it.  It holds one guard at a time,    *)
(* and one reference object, or the two halves of a split.  An acquisition *)
(* that would block is a step that is not enabled.                         *)
(***************************************************************************)
EXTENDS Naturals, FiniteSets, Sequences, TLC

\* Bound of the model: the number of threads.
NumThreads == 2

Threads == 1 .. NumThreads
\* The reference objects of thread t are <<t, 1>> and, for the second half
\* of a split, <<t, 2>>; its guard is t.
RefIds == Threads \X {1, 2}
GuardIds == Threads

\* The entries of the shard and the value inserted under each, and the
\* keys the threads look up.
Keys == {"k1", "k2"}
Inserted == <<0, 0>>
Lookups == {"k1"}
Shards == {"s1"}
ShardOf(k) == "s1"
ValLen == Len(Inserted)

\* Byte classes: 0 a lower-case ASCII letter, 1 an upper-case one.
Bytes == {0, 1}

VARIABLES
    lock,    \* lock[s]: the shard's RwLock, [readers |-> Nat, writer |-> BOOLEAN]
    guards,  \* guards[g]: a detached guard, or NoGuard
    refs,    \* refs[r]: a live reference object, or NoRef
    store,   \* store[k]: the value of entry k, a sequence of ValLen bytes
    last     \* history: the last transformation or write, and the object
             \* it returned or went through

vars == <<lock, guards, refs, store, last>>

NoGuard == [mode |-> "none", shard |-> "s1", arc |-> 0]
NoRef == [kind |-> "none"]
NoLast == [op |-> "none", r |-> <<0, 0>>]

ReadKinds == {"Ref", "MappedRef", "RefMulti"}
WriteKinds == {"RefMut", "MappedRefMut", "RefMutMulti"}
SharedKinds == {"RefMulti", "RefMutMulti"}

Live(r) == refs[r] # NoRef
Held(g) == guards[g] # NoGuard
Idle(t) == ~Held(t) /\ ~Live(<<t, 1>>) /\ ~Live(<<t, 2>>)

\* The bytes of entry k in the region [lo, hi) of its buffer.
BytesAt(st, k, lo, hi) == [i \in 1 .. (hi - lo) |-> st[k][lo + i]]

(***************************************************************************)
(* The lock primitive (crate::lock, outside these files): shared and       *)
(* exclusive acquisition, release of either mode, and the in-place         *)
(* conversion of the exclusive mode into the shared one.                   *)
(***************************************************************************)
CanLockShared(s) == ~lock[s].writer
CanLockExclusive(s) == ~lock[s].writer /\ lock[s].readers = 0
LockShared(l, s) == [l EXCEPT ![s].readers = @ + 1]
LockExclusive(l, s) == [l EXCEPT ![s].writer = TRUE]
UnlockShared(l, s) == [l EXCEPT ![s].readers = IF @ > 0 THEN @ - 1 ELSE 0]
UnlockExclusive(l, s) == [l EXCEPT ![s].writer = FALSE]
LockDowngrade(l, s) == [l EXCEPT ![s] = [readers |-> @.readers + 1, writer |-> FALSE]]

\* Dropping a detached guard releases the lock in the guard's mode.
GuardRelease(l, g) ==
    CASE guards[g].mode = "write" -> UnlockExclusive(l, guards[g].shard)
      [] guards[g].mode = "read" -> UnlockShared(l, guards[g].shard)
      [] OTHER -> l

(***************************************************************************)
(* The reference objects.  kind, guard, k and the region [lo, hi) are the  *)
(* fields of the struct.  seen and comp are history: the bytes the holder  *)
(* last read or wrote in the region, and the composition of the            *)
(* projections applied since the acquisition, as the slice                 *)
(* [off, off + len) of the acquired value it selects.                      *)
(***************************************************************************)
MkRef(kind, g, k, lo, hi, seen, comp) ==
    [kind |-> kind, guard |-> g, k |-> k, lo |-> lo, hi |-> hi,
     seen |-> seen, comp |-> comp]

Identity == [off |-> 0, len |-> ValLen]

\* Ref::new and RefMut::new: the guard, the key and the value as given.
RefNew(g, k, lo, hi, seen) == MkRef("Ref", g, k, lo, hi, seen, Identity)
RefMutNew(g, k, lo, hi, seen) == MkRef("RefMut", g, k, lo, hi, seen, Identity)

\* value(): the bytes the value pointer points at.
ValueOf(st, ref) == BytesAt(st, ref.k, ref.lo, ref.hi)
Value(r) == ValueOf(store, refs[r])
\* key(): the key pointer.
Key(r) == refs[r].k

Init ==
    /\ lock = [s \in Shards |-> [readers |-> 0, writer |-> FALSE]]
    /\ guards = [g \in GuardIds |-> NoGuard]
    /\ refs = [r \in RefIds |-> NoRef]
    /\ store = [k \in Keys |-> Inserted]
    /\ last = NoLast

\* The surrounding map's get(k): lock the shard shared, then Ref::new.
Get(t, k) ==
    /\ Idle(t)
    /\ CanLockShared(ShardOf(k))
    /\ lock' = LockShared(lock, ShardOf(k))
    /\ guards' = [guards EXCEPT ![t] = [mode |-> "read", shard |-> ShardOf(k), arc |-> 0]]
    /\ refs' = [refs EXCEPT ![<<t, 1>>] = RefNew(t, k, 0, ValLen, store[k])]
    /\ last' = NoLast
    /\ UNCHANGED store

\* The surrounding map's get_mut(k): lock the shard exclusive, then RefMut::new.
GetMut(t, k) ==
    /\ Idle(t)
    /\ CanLockExclusive(ShardOf(k))
    /\ lock' = LockExclusive(lock, ShardOf(k))
    /\ guards' = [guards EXCEPT ![t] = [mode |-> "write", shard |-> ShardOf(k), arc |-> 0]]
    /\ refs' = [refs EXCEPT ![<<t, 1>>] = RefMutNew(t, k, 0, ValLen, store[k])]
    /\ last' = NoLast
    /\ UNCHANGED store

\* Mutant of Write: value_mut() answers a copy of the value, and the store
\* of b lands in the copy.
WriteDetached(r, i, b) ==
    /\ Live(r)
    /\ refs[r].kind \in WriteKinds
    /\ i \in 1 .. (refs[r].hi - refs[r].lo)
    /\ refs' = [refs EXCEPT ![r].seen[i] = b]
    /\ last' = [op |-> "write", r |-> r]
    /\ UNCHANGED <<lock, guards, store>>

\* value_mut() / deref_mut() of RefMut, MappedRefMut and RefMutMulti, and a
\* store of byte b at offset i of the value it returns.
Write(r, i, b) ==
    /\ Live(r)
    /\ refs[r].kind \in WriteKinds
    /\ i \in 1 .. (refs[r].hi - refs[r].lo)
    /\ store' = [store EXCEPT ![refs[r].k][refs[r].lo + i] = b]
    /\ refs' = [refs EXCEPT ![r].seen[i] = b]
    /\ last' = [op |-> "write", r |-> r]
    /\ UNCHANGED <<lock, guards>>

\* Mutant of DropOne: the reference goes away and its guard field is
\* forgotten, not dropped.
DropOneForgets(r) ==
    /\ Live(r)
    /\ refs[r].kind \notin SharedKinds
    /\ guards' = [guards EXCEPT ![refs[r].guard] = NoGuard]
    /\ refs' = [refs EXCEPT ![r] = NoRef]
    /\ last' = NoLast
    /\ UNCHANGED <<lock, store>>

\* Drop of a Ref, RefMut, MappedRef or MappedRefMut: its guard field is
\* dropped with it.
DropOne(r) ==
    /\ Live(r)
    /\ refs[r].kind \notin SharedKinds
    /\ lock' = GuardRelease(lock, refs[r].guard)
    /\ guards' = [guards EXCEPT ![refs[r].guard] = NoGuard]
    /\ refs' = [refs EXCEPT ![r] = NoRef]
    /\ last' = NoLast
    /\ UNCHANGED store

\* Mutant of DropMulti: the guard is released with the first half dropped.
DropMultiEager(r) ==
    /\ Live(r)
    /\ refs[r].kind \in SharedKinds
    /\ guards' = [guards EXCEPT ![refs[r].guard] = NoGuard]
    /\ lock' = GuardRelease(lock, refs[r].guard)
    /\ refs' = [refs EXCEPT ![r] = NoRef]
    /\ last' = NoLast
    /\ UNCHANGED store

\* Drop of a RefMulti or RefMutMulti: its Arc is dropped, and the guard
\* inside when that was the last Arc.
DropMulti(r) ==
    /\ Live(r)
    /\ refs[r].kind \in SharedKinds
    /\ LET g == refs[r].guard
       IN IF guards[g].arc > 1
          THEN /\ guards' = [guards EXCEPT ![g].arc = @ - 1]
               /\ lock' = lock
          ELSE /\ guards' = [guards EXCEPT ![g] = NoGuard]
               /\ lock' = GuardRelease(lock, g)
    /\ refs' = [refs EXCEPT ![r] = NoRef]
    /\ last' = NoLast
    /\ UNCHANGED store

(***************************************************************************)
(* The caller-supplied functions.  A projection f is one of                *)
(*   get_to n    the first n bytes of its argument      (s.get(..n))       *)
(*   get_from n  its argument without the first n bytes (s.get(n..))       *)
(* and has no answer when its argument is shorter than n.  A projection of *)
(* a mutable reference receives &mut V and may store through it before it  *)
(* answers: with poke it makes the first byte of its argument upper case.  *)
(* Handed to map, whose f must return a reference, a projection that has   *)
(* no answer panics.  A third projection,                                  *)
(*   index_to n  the first n bytes of its argument      (&s[..n])          *)
(* panics for want of an answer wherever it is handed to; it is taken with *)
(* an n beyond the value, where it differs from get_to.                    *)
(***************************************************************************)
Projs ==
    [op : {"get_to", "get_from"}, n : 0 .. (ValLen + 1), poke : BOOLEAN]
       \cup [op : {"index_to"}, n : {ValLen + 1}, poke : BOOLEAN]
ConstProjs == {f \in Projs : ~f.poke}

\* What f stores through its argument, in the buffer and in a copy of the
\* argument's bytes.
Poke(st, k, lo, hi, f) ==
    IF f.poke /\ hi > lo THEN [st EXCEPT ![k][lo + 1] = 1] ELSE st
PokeSeq(seq, f) ==
    IF f.poke /\ Len(seq) > 0 THEN [seq EXCEPT ![1] = 1] ELSE seq

\* What f answers for the region [lo, hi): a region, or none.
Project(f, lo, hi) ==
    IF f.n > hi - lo THEN [ok |-> FALSE, lo |-> lo, hi |-> hi]
    ELSE IF f.op \in {"get_to", "index_to"} THEN [ok |-> TRUE, lo |-> lo, hi |-> lo + f.n]
    ELSE [ok |-> TRUE, lo |-> lo + f.n, hi |-> hi]

\* f applied to the value pointer of reference r: f(self.v).
CallF(r, f) == Project(f, refs[r].lo, refs[r].hi)
StoreAfter(r, f) == Poke(store, refs[r].k, refs[r].lo, refs[r].hi, f)

\* The composition of f after the slice c, as a slice of the same value.
Compose(f, c) ==
    IF f.op \in {"get_to", "index_to"} THEN [off |-> c.off, len |-> f.n]
    ELSE [off |-> c.off + f.n, len |-> c.len - f.n]

\* The bytes of the narrowed region as the holder of r knows them.
SeenAfter(r, f, p) ==
    SubSeq(PokeSeq(refs[r].seen, f), p.lo - refs[r].lo + 1, p.hi - refs[r].lo)

\* Mutant of Projected: the value pointer of the consumed reference is
\* kept, and f's answer is not used.
ProjectedStale(kind, r, f, p) ==
    MkRef(kind, refs[r].guard, refs[r].k, refs[r].lo, refs[r].hi,
          PokeSeq(refs[r].seen, f), Compose(f, refs[r].comp))

\* A struct literal { _guard: self._guard, k: self.k, v } of the given kind.
Projected(kind, r, f, p) ==
    MkRef(kind, refs[r].guard, refs[r].k, p.lo, p.hi,
          SeenAfter(r, f, p), Compose(f, refs[r].comp))

\* Mutant of HandedBack: the reference handed back has the guard of the
\* original and an empty view of the value.
HandedBackEmptied(r, f) ==
    [refs[r] EXCEPT !.seen = <<>>, !.hi = refs[r].lo]

\* Err(self): the reference itself is handed back.
HandedBack(r, f) == [refs[r] EXCEPT !.seen = PokeSeq(@, f)]

\* Mutant of Unwind: the consumed reference is forgotten when f panics, its
\* guard never dropped.
UnwindForgets(r) ==
    /\ refs' = [refs EXCEPT ![r] = NoRef]
    /\ last' = [op |-> "panic", r |-> r]
    /\ UNCHANGED <<lock, guards>>

\* A panic in the caller's function unwinds through the call: the consumed
\* reference is dropped, and its guard with it.
Unwind(r) ==
    /\ lock' = GuardRelease(lock, refs[r].guard)
    /\ guards' = [guards EXCEPT ![refs[r].guard] = NoGuard]
    /\ refs' = [refs EXCEPT ![r] = NoRef]
    /\ last' = [op |-> "panic", r |-> r]

\* Mutant of Holds: the methods of Ref and RefMut are there for the halves
\* of a split as well.
HoldsOrHalf(r, kind) ==
    /\ Live(r)
    /\ \/ refs[r].kind = kind
       \/ kind = "Ref" /\ refs[r].kind = "RefMulti"
       \/ kind = "RefMut" /\ refs[r].kind = "RefMutMulti"

\* self of a method of the given kind.
Holds(r, kind) == Live(r) /\ refs[r].kind = kind

\* map of any of the four kinds: the projected reference, or the panic.
MapInto(kind, r, f, op) ==
    IF CallF(r, f).ok
    THEN /\ refs' = [refs EXCEPT ![r] = Projected(kind, r, f, CallF(r, f))]
         /\ last' = [op |-> op, r |-> r]
         /\ UNCHANGED <<lock, guards>>
    ELSE Unwind(r)

\* f panics in place of answering None.
Panics(r, f) == f.op = "index_to" /\ ~CallF(r, f).ok

\* Mutant of TryMapInto: Ok leaves the reference it was called on in place
\* beside the projected one.
TryMapIntoKeepsInput(kind, r, f, op) ==
    IF Panics(r, f)
    THEN Unwind(r)
    ELSE /\ IF CallF(r, f).ok
            THEN /\ refs' = [refs EXCEPT ![<<r[1], 2>>] =
                                Projected(kind, r, f, CallF(r, f))]
                 /\ last' = [op |-> op, r |-> r]
            ELSE /\ refs' = [refs EXCEPT ![r] = HandedBack(r, f)]
                 /\ last' = [op |-> "try_fail", r |-> r]
         /\ UNCHANGED <<lock, guards>>

\* try_map of any of the four kinds: Ok(projected) or Err(self), or the
\* panic.
TryMapInto(kind, r, f, op) ==
    IF Panics(r, f)
    THEN Unwind(r)
    ELSE /\ IF CallF(r, f).ok
            THEN /\ refs' = [refs EXCEPT ![r] = Projected(kind, r, f, CallF(r, f))]
                 /\ last' = [op |-> op, r |-> r]
            ELSE /\ refs' = [refs EXCEPT ![r] = HandedBack(r, f)]
                 /\ last' = [op |-> "try_fail", r |-> r]
         /\ UNCHANGED <<lock, guards>>

\* Ref::map
RefMap(r, f) ==
    /\ Holds(r, "Ref") /\ f \in ConstProjs
    /\ MapInto("MappedRef", r, f, "map")
    /\ UNCHANGED store

\* Ref::try_map
RefTryMap(r, f) ==
    /\ Holds(r, "Ref") /\ f \in ConstProjs
    /\ TryMapInto("MappedRef", r, f, "map")
    /\ UNCHANGED store

\* Mutant of MappedRefMap: f is applied to the value the guard was
\* acquired for, not to the projection the MappedRef holds.
MappedRefMapRebased(r, f) ==
    /\ Holds(r, "MappedRef") /\ f \in ConstProjs
    /\ Project(f, 0, ValLen).ok
    /\ refs' = [refs EXCEPT ![r] =
                  MkRef("MappedRef", refs[r].guard, refs[r].k,
                        Project(f, 0, ValLen).lo, Project(f, 0, ValLen).hi,
                        BytesAt(store, refs[r].k, Project(f, 0, ValLen).lo,
                                Project(f, 0, ValLen).hi),
                        Compose(f, refs[r].comp))]
    /\ last' = [op |-> "chain", r |-> r]
    /\ UNCHANGED <<lock, guards, store>>

\* MappedRef::map
MappedRefMap(r, f) ==
    /\ Holds(r, "MappedRef") /\ f \in ConstProjs
    /\ MapInto("MappedRef", r, f, "chain")
    /\ UNCHANGED store

\* MappedRef::try_map
MappedRefTryMap(r, f) ==
    /\ Holds(r, "MappedRef") /\ f \in ConstProjs
    /\ TryMapInto("MappedRef", r, f, "chain")
    /\ UNCHANGED store

\* Mutant of RefMutDowngrade: a read lock is taken for the Ref on top of the
\* converted guard.
RefMutDowngradeTwoReaders(r) ==
    /\ Holds(r, "RefMut")
    /\ lock' = LockShared(LockDowngrade(lock, guards[refs[r].guard].shard),
                          guards[refs[r].guard].shard)
    /\ guards' = [guards EXCEPT ![refs[r].guard].mode = "read"]
    /\ refs' = [refs EXCEPT ![r] =
                  RefNew(refs[r].guard, refs[r].k, refs[r].lo, refs[r].hi, refs[r].seen)]
    /\ last' = [op |-> "downgrade", r |-> r]
    /\ UNCHANGED store

\* Mutant of RefMutDowngrade: the conversion queues behind the writers that
\* are parked in the lock.
RefMutDowngradeQueues(r) ==
    /\ Holds(r, "RefMut")
    /\ \A t \in Threads : guards[t].mode # "want_write"
    /\ lock' = LockDowngrade(lock, guards[refs[r].guard].shard)
    /\ guards' = [guards EXCEPT ![refs[r].guard].mode = "read"]
    /\ refs' = [refs EXCEPT ![r] =
                  RefNew(refs[r].guard, refs[r].k, refs[r].lo, refs[r].hi, refs[r].seen)]
    /\ last' = [op |-> "downgrade", r |-> r]
    /\ UNCHANGED store

\* Mutant of RefMutDowngrade: the write lock is released and no read lock
\* is taken in its place.
RefMutDowngradeUnlocks(r) ==
    /\ Holds(r, "RefMut")
    /\ lock' = UnlockExclusive(lock, guards[refs[r].guard].shard)
    /\ guards' = [guards EXCEPT ![refs[r].guard].mode = "read"]
    /\ refs' = [refs EXCEPT ![r] =
                  RefNew(refs[r].guard, refs[r].k, refs[r].lo, refs[r].hi, refs[r].seen)]
    /\ last' = [op |-> "downgrade", r |-> r]
    /\ UNCHANGED store

\* Mutant of RefMutDowngrade: the Ref is built with the key of another entry.
RefMutDowngradeOtherKey(r) ==
    /\ Holds(r, "RefMut")
    /\ lock' = LockDowngrade(lock, guards[refs[r].guard].shard)
    /\ guards' = [guards EXCEPT ![refs[r].guard].mode = "read"]
    /\ refs' = [refs EXCEPT ![r] =
                  RefNew(refs[r].guard, CHOOSE k \in Keys : k # refs[r].k,
                         refs[r].lo, refs[r].hi, refs[r].seen)]
    /\ last' = [op |-> "downgrade", r |-> r]
    /\ UNCHANGED store

\* Mutant of RefMutDowngrade: the Ref is built around the write guard as it
\* is, without the conversion.
RefMutDowngradeKeepsWrite(r) ==
    /\ Holds(r, "RefMut")
    /\ refs' = [refs EXCEPT ![r] =
                  RefNew(refs[r].guard, refs[r].k, refs[r].lo, refs[r].hi, refs[r].seen)]
    /\ last' = [op |-> "downgrade", r |-> r]
    /\ UNCHANGED <<lock, guards, store>>

\* RefMut::downgrade
RefMutDowngrade(r) ==
    /\ Holds(r, "RefMut")
    /\ LET g == refs[r].guard
       IN /\ lock' = LockDowngrade(lock, guards[g].shard)
          /\ guards' = [guards EXCEPT ![g].mode = "read"]
          /\ refs' = [refs EXCEPT ![r] =
                        RefNew(g, refs[r].k, refs[r].lo, refs[r].hi, refs[r].seen)]
    /\ last' = [op |-> "downgrade", r |-> r]
    /\ UNCHANGED store

\* RefMut::map
RefMutMap(r, f) ==
    /\ Holds(r, "RefMut") /\ f \in Projs
    /\ MapInto("MappedRefMut", r, f, "map")
    /\ store' = StoreAfter(r, f)

\* RefMut::try_map
RefMutTryMap(r, f) ==
    /\ Holds(r, "RefMut") /\ f \in Projs
    /\ TryMapInto("MappedRefMut", r, f, "map")
    /\ store' = StoreAfter(r, f)

\* MappedRefMut::map
MappedRefMutMap(r, f) ==
    /\ Holds(r, "MappedRefMut") /\ f \in Projs
    /\ MapInto("MappedRefMut", r, f, "chain")
    /\ store' = StoreAfter(r, f)

\* MappedRefMut::try_map
MappedRefMutTryMap(r, f) ==
    /\ Holds(r, "MappedRefMut") /\ f \in Projs
    /\ TryMapInto("MappedRefMut", r, f, "chain")
    /\ store' = StoreAfter(r, f)

(***************************************************************************)
(* map_split.  The splitting function is split_at(n): the first n bytes of *)
(* its argument and the rest; it panics when its argument is shorter than  *)
(* n.  The guard moves into an Arc, and each half holds one clone of it.   *)
(***************************************************************************)
SplitPoints == 0 .. (ValLen + 1)

\* Mutant of Half: the half is built with the key of another entry.
HalfOtherKey(kind, r, lo, hi) ==
    MkRef(kind, refs[r].guard, CHOOSE k \in Keys : k # refs[r].k, lo, hi,
          SubSeq(refs[r].seen, lo - refs[r].lo + 1, hi - refs[r].lo),
          [off |-> lo, len |-> hi - lo])

\* One half: { _guard: guard.clone(), k: self.k, v } over [lo, hi).
Half(kind, r, lo, hi) ==
    MkRef(kind, refs[r].guard, refs[r].k, lo, hi,
          SubSeq(refs[r].seen, lo - refs[r].lo + 1, hi - refs[r].lo),
          [off |-> lo, len |-> hi - lo])

\* Mutant of ArcShared: a clone of the Arc too many is made, and forgotten.
ArcSharedThrice(g) == [guards EXCEPT ![g].arc = 3]

\* Mutant of ArcShared: the second half is built without guard.clone().
ArcSharedOnce(g) == [guards EXCEPT ![g].arc = 1]

\* Arc::new(guard) and guard.clone(): two owners of the guard.
ArcShared(g) == [guards EXCEPT ![g].arc = 2]

\* Mutant of SplitInto: the second half of a read reference is given a
\* read lock of its own.
SplitIntoRelocks(kind, r, n) ==
    IF n <= refs[r].hi - refs[r].lo
    THEN /\ LET mid == refs[r].lo + n
            IN refs' = [refs EXCEPT ![r] = Half(kind, r, refs[r].lo, mid),
                                    ![<<r[1], 2>>] = Half(kind, r, mid, refs[r].hi)]
         /\ guards' = ArcShared(refs[r].guard)
         /\ lock' = IF guards[refs[r].guard].mode = "read"
                    THEN LockShared(lock, guards[refs[r].guard].shard)
                    ELSE lock
         /\ last' = [op |-> "split", r |-> r]
    ELSE Unwind(r)

\* Mutant of SplitInto: the second half is built over the whole value, not
\* over what f answered second.
SplitIntoWhole(kind, r, n) ==
    IF n <= refs[r].hi - refs[r].lo
    THEN /\ LET mid == refs[r].lo + n
            IN refs' = [refs EXCEPT ![r] = Half(kind, r, refs[r].lo, mid),
                                    ![<<r[1], 2>>] = Half(kind, r, refs[r].lo, refs[r].hi)]
         /\ guards' = ArcShared(refs[r].guard)
         /\ lock' = lock
         /\ last' = [op |-> "split", r |-> r]
    ELSE Unwind(r)

\* let (a, b) = f(self.v); the halves over a and b, the guard shared. f is
\* split_at(n), which panics beyond the end of the value.
SplitInto(kind, r, n) ==
    IF n <= refs[r].hi - refs[r].lo
    THEN /\ LET mid == refs[r].lo + n
            IN refs' = [refs EXCEPT ![r] = Half(kind, r, refs[r].lo, mid),
                                    ![<<r[1], 2>>] = Half(kind, r, mid, refs[r].hi)]
         /\ guards' = ArcShared(refs[r].guard)
         /\ lock' = lock
         /\ last' = [op |-> "split", r |-> r]
    ELSE Unwind(r)

\* Mutant of RefMapSplit: the halves of a read reference are built as
\* mutable ones.
RefMapSplitMut(r, n) ==
    /\ Holds(r, "Ref")
    /\ SplitInto("RefMutMulti", r, n)
    /\ UNCHANGED store

\* Ref::map_split
RefMapSplit(r, n) ==
    /\ Holds(r, "Ref")
    /\ SplitInto("RefMulti", r, n)
    /\ UNCHANGED store

\* RefMut::map_split
RefMutMapSplit(r, n) ==
    /\ Holds(r, "RefMut")
    /\ SplitInto("RefMutMulti", r, n)
    /\ UNCHANGED store

Next ==
    \/ \E t \in Threads, k \in Lookups : Get(t, k)
    \/ \E t \in Threads, k \in Lookups : GetMut(t, k)
    \/ \E r \in RefIds, i \in 1 .. ValLen, b \in Bytes : Write(r, i, b)
    \/ \E r \in RefIds : DropOne(r)
    \/ \E r \in RefIds : DropMulti(r)
    \/ \E r \in RefIds, f \in Projs : RefMap(r, f)
    \/ \E r \in RefIds, f \in Projs : RefTryMap(r, f)
    \/ \E r \in RefIds, f \in Projs : MappedRefMap(r, f)
    \/ \E r \in RefIds, f \in Projs : MappedRefTryMap(r, f)
    \/ \E r \in RefIds : RefMutDowngrade(r)
    \/ \E r \in RefIds, f \in Projs : RefMutMap(r, f)
    \/ \E r \in RefIds, f \in Projs : RefMutTryMap(r, f)
    \/ \E r \in RefIds, f \in Projs : MappedRefMutMap(r, f)
    \/ \E r \in RefIds, f \in Projs : MappedRefMutTryMap(r, f)
    \/ \E r \in RefIds, n \in SplitPoints : RefMapSplit(r, n)
    \/ \E r \in RefIds, n \in SplitPoints : RefMutMapSplit(r, n)

Spec == Init /\ [][Next]_vars

(***************************************************************************)
(* The same operations with the acquisition in two steps, for the          *)
(* properties about waiting: a thread calls into the lock and is parked    *)
(* there (its guard is wanted, not yet granted), and the lock grants the   *)
(* guard when its state admits the mode.  The lock is weakly fair to a     *)
(* parked thread: it does not leave it parked forever while the mode it    *)
(* asks for stays available.  The stored bytes have no part in what the    *)
(* lock does, and are left as inserted here: no write, and no projection   *)
(* that stores.                                                            *)
(***************************************************************************)
WantModes == {"want_read", "want_write"}
Parked(t) == guards[t].mode \in WantModes

\* get / get_mut: the call into the lock of the key's shard.
Park(t, k, mode) ==
    /\ Idle(t)
    /\ guards' = [guards EXCEPT ![t] = [mode |-> mode, shard |-> ShardOf(k), arc |-> 0]]
    /\ last' = NoLast
    /\ UNCHANGED <<lock, refs, store>>

\* The shared lock is granted, and get goes on to Ref::new.
Grant(t, k) ==
    /\ guards[t].mode = "want_read" /\ guards[t].shard = ShardOf(k)
    /\ CanLockShared(ShardOf(k))
    /\ lock' = LockShared(lock, ShardOf(k))
    /\ guards' = [guards EXCEPT ![t].mode = "read"]
    /\ refs' = [refs EXCEPT ![<<t, 1>>] = RefNew(t, k, 0, ValLen, store[k])]
    /\ last' = NoLast
    /\ UNCHANGED store

\* The exclusive lock is granted, and get_mut goes on to RefMut::new.
GrantMut(t, k) ==
    /\ guards[t].mode = "want_write" /\ guards[t].shard = ShardOf(k)
    /\ CanLockExclusive(ShardOf(k))
    /\ lock' = LockExclusive(lock, ShardOf(k))
    /\ guards' = [guards EXCEPT ![t].mode = "write"]
    /\ refs' = [refs EXCEPT ![<<t, 1>>] = RefMutNew(t, k, 0, ValLen, store[k])]
    /\ last' = NoLast
    /\ UNCHANGED store

FairNext ==
    \/ \E t \in Threads, k \in Lookups, mode \in WantModes : Park(t, k, mode)
    \/ \E t \in Threads, k \in Lookups : Grant(t, k)
    \/ \E t \in Threads, k \in Lookups : GrantMut(t, k)
    \/ \E r \in RefIds : DropOne(r)
    \/ \E r \in RefIds : DropMulti(r)
    \/ \E r \in RefIds, f \in ConstProjs : RefMap(r, f)
    \/ \E r \in RefIds, f \in ConstProjs : RefTryMap(r, f)
    \/ \E r \in RefIds, f \in ConstProjs : MappedRefMap(r, f)
    \/ \E r \in RefIds, f \in ConstProjs : MappedRefTryMap(r, f)
    \/ \E r \in RefIds : RefMutDowngrade(r)
    \/ \E r \in RefIds, f \in ConstProjs : RefMutMap(r, f)
    \/ \E r \in RefIds, f \in ConstProjs : RefMutTryMap(r, f)
    \/ \E r \in RefIds, f \in ConstProjs : MappedRefMutMap(r, f)
    \/ \E r \in RefIds, f \in ConstProjs : MappedRefMutTryMap(r, f)
    \/ \E r \in RefIds, n \in SplitPoints : RefMapSplit(r, n)
    \/ \E r \in RefIds, n \in SplitPoints : RefMutMapSplit(r, n)

FairSpec ==
    /\ Init /\ [][FairNext]_vars
    /\ \A t \in Threads : WF_vars(\E k \in Lookups : Grant(t, k))
    /\ \A t \in Threads : WF_vars(\E k \in Lookups : GrantMut(t, k))

(***************************************************************************)
(* The properties.                                                         *)
(***************************************************************************)
ReadGuards(s) == {g \in GuardIds : guards[g].mode = "read" /\ guards[g].shard = s}
WriteGuards(s) == {g \in GuardIds : guards[g].mode = "write" /\ guards[g].shard = s}
Sibling(r) == <<r[1], 3 - r[2]>>
LiveHalves(g) ==
    {r \in RefIds : Live(r) /\ refs[r].kind \in SharedKinds /\ refs[r].guard = g}

\* C1 (guard-before-data): the guard of every live reference, of any of the
\* six kinds, is still held, in the mode of the reference's kind, and the
\* lock of its shard still counts it: no map, try_map, map_split, downgrade
\* or drop of another reference has released it.
C1_GuardBeforeData ==
    \A r \in RefIds : Live(r) =>
        LET g == refs[r].guard
            s == guards[g].shard
        IN /\ Held(g)
           /\ guards[g].mode = IF refs[r].kind \in WriteKinds THEN "write" ELSE "read"
           /\ IF refs[r].kind \in WriteKinds
              THEN lock[s].writer
              ELSE lock[s].readers >= Cardinality(ReadGuards(s))

\* A half of a split whose other half has been dropped, after a chain of
\* transformations elsewhere.
C1_Witness ==
    \E r \in RefIds :
        /\ Live(r) /\ refs[r].kind \in SharedKinds /\ ~Live(Sibling(r))
        /\ last.op \in {"map", "chain", "downgrade"}

\* C2 (exclusivity): a shard has any number of read guards or exactly one
\* write guard, never both, and its lock says the same; while a RefMut,
\* MappedRefMut or RefMutMulti is live its guard is the only guard of the
\* shard, and while a Ref, MappedRef or RefMulti is live the shard has no
\* write guard.
C2_Exclusivity ==
    \A s \in Shards :
        /\ Cardinality(WriteGuards(s)) <= 1
        /\ WriteGuards(s) # {} => ReadGuards(s) = {}
        /\ lock[s].writer <=> WriteGuards(s) # {}
        /\ lock[s].readers = Cardinality(ReadGuards(s))
        /\ \A r \in RefIds : (Live(r) /\ ShardOf(refs[r].k) = s) =>
              IF refs[r].kind \in WriteKinds
              THEN WriteGuards(s) = {refs[r].guard} /\ ReadGuards(s) = {}
              ELSE WriteGuards(s) = {}

\* Two read guards at once, one of them shared by the halves of a split.
C2_Witness ==
    \E s \in Shards :
        /\ Cardinality(ReadGuards(s)) >= 2
        /\ \E r \in RefIds : Live(r) /\ refs[r].kind = "RefMulti"

\* The lock of shard s is released by the drop of guard g: one reader
\* fewer, or no writer.
ReleasedBy(g) ==
    LET s == guards[g].shard
    IN IF guards[g].mode = "write"
       THEN lock[s].writer /\ ~lock'[s].writer
       ELSE lock'[s].readers = lock[s].readers - 1

\* C3 (split lifetime): while a half of a split is live its guard is held
\* by as many owners as halves are live and the lock is held; the drop of
\* one half while the other is live releases nothing, and the drop of the
\* last half releases the lock.
C3_SplitLifetime ==
    /\ [](\A r \in RefIds : (Live(r) /\ refs[r].kind \in SharedKinds) =>
            LET g == refs[r].guard
            IN /\ Held(g)
               /\ guards[g].arc = Cardinality(LiveHalves(g))
               /\ IF refs[r].kind = "RefMutMulti"
                  THEN lock[guards[g].shard].writer
                  ELSE lock[guards[g].shard].readers >= 1)
    /\ [][\A r \in RefIds :
            (Live(r) /\ refs[r].kind \in SharedKinds /\ refs'[r] = NoRef) =>
                LET g == refs[r].guard
                IN IF Live(Sibling(r))
                   THEN lock' = lock /\ guards'[g] # NoGuard /\ refs'[Sibling(r)] # NoRef
                   ELSE ReleasedBy(g) /\ guards'[g] = NoGuard]_vars

\* One half has been dropped, the other is live and written through.
C3_Witness ==
    \E r \in RefIds :
        /\ Live(r) /\ refs[r].kind = "RefMutMulti" /\ ~Live(Sibling(r))
        /\ last = [op |-> "write", r |-> r]
        /\ lock[ShardOf(refs[r].k)].writer

\* C4 (downgrade atomicity): a downgrade takes the shard's lock from held
\* by this one writer to held by this one reader in a single step, the
\* guard staying the same guard and no other guard appearing; and a write
\* lock is only ever acquired in a state where no reference is live, so
\* none is acquired from the holder's writes through the RefMut to the
\* drop of the Ref the downgrade returned.
C4_DowngradeAtomic ==
    /\ [][\A r \in RefIds : (refs[r].kind = "RefMut" /\ refs'[r].kind = "Ref") =>
            LET g == refs[r].guard
                s == guards[g].shard
            IN /\ refs'[r].guard = g
               /\ guards[g].mode = "write" /\ guards'[g].mode = "read"
               /\ lock[s] = [readers |-> 0, writer |-> TRUE]
               /\ lock'[s] = [readers |-> 1, writer |-> FALSE]
               /\ \A h \in GuardIds \ {g} : guards'[h] = guards[h]
               /\ store' = store]_vars
    /\ [][\A g \in GuardIds : (guards[g].mode # "write" /\ guards'[g].mode = "write") =>
            \A r \in RefIds : ~Live(r)]_vars
    /\ [](\A r \in RefIds : (Live(r) /\ refs[r].kind = "Ref") =>
            ~CanLockExclusive(ShardOf(refs[r].k)))

\* A downgrade has just returned its Ref, after a write through the RefMut.
C4_Witness ==
    /\ last.op = "downgrade"
    /\ Live(last.r) /\ refs[last.r].kind = "Ref"
    /\ store[refs[last.r].k] # Inserted
    /\ lock[ShardOf(refs[last.r].k)] = [readers |-> 1, writer |-> FALSE]

\* C5 (downgrade preserves value): the Ref a downgrade returns has the key
\* and the value pointer of the RefMut, and reads what the holder last
\* wrote through the RefMut; and a Ref reads what its holder last saw for
\* as long as it lives.
C5_DowngradePreservesValue ==
    /\ [][\A r \in RefIds : (refs[r].kind = "RefMut" /\ refs'[r].kind = "Ref") =>
            /\ refs'[r].k = refs[r].k
            /\ refs'[r].lo = refs[r].lo /\ refs'[r].hi = refs[r].hi
            /\ ValueOf(store', refs'[r]) = refs[r].seen]_vars
    /\ [](\A r \in RefIds : (Live(r) /\ refs[r].kind = "Ref") =>
            Value(r) = refs[r].seen)

\* The Ref a downgrade returned reads a value that was written through the
\* RefMut: one byte upper case, one left as inserted.
C5_Witness ==
    /\ last.op = "downgrade"
    /\ Live(last.r)
    /\ Key(last.r) \in Lookups
    /\ Value(last.r) = <<0, 1>>

\* The steps the next properties are about.
TryMapStep(r, f) ==
    CASE refs[r].kind = "Ref" -> RefTryMap(r, f)
      [] refs[r].kind = "RefMut" -> RefMutTryMap(r, f)
      [] refs[r].kind = "MappedRef" -> MappedRefTryMap(r, f)
      [] refs[r].kind = "MappedRefMut" -> MappedRefMutTryMap(r, f)
      [] OTHER -> FALSE
FirstMapStep(r, f) ==
    CASE refs[r].kind = "Ref" -> RefMap(r, f) \/ RefTryMap(r, f)
      [] refs[r].kind = "RefMut" -> RefMutMap(r, f) \/ RefMutTryMap(r, f)
      [] OTHER -> FALSE
ChainStep(r, f) ==
    CASE refs[r].kind = "MappedRef" -> MappedRefMap(r, f) \/ MappedRefTryMap(r, f)
      [] refs[r].kind = "MappedRefMut" -> MappedRefMutMap(r, f) \/ MappedRefMutTryMap(r, f)
      [] OTHER -> FALSE
Failing(r) == {f \in Projs : ~CallF(r, f).ok /\ ~Panics(r, f)}
Succeeding(r) == {f \in Projs : CallF(r, f).ok}
\* The references a step of the given operations has just returned.
Returned(ops) == {r \in RefIds : last'.op \in ops /\ last'.r = r}
SameObject(a, b) ==
    /\ a.kind = b.kind /\ a.guard = b.guard
    /\ a.k = b.k /\ a.lo = b.lo /\ a.hi = b.hi

\* C6 as stated: a try_map whose projection fails hands the reference back
\* unchanged, with the same guard and lock state, the same key and the
\* same value.
C6_AsStated ==
    [][\A r \in Returned({"try_fail"}) : \A f \in Failing(r) : TryMapStep(r, f) =>
          /\ SameObject(refs'[r], refs[r])
          /\ guards' = guards /\ lock' = lock
          /\ store' = store]_vars

\* C6 (failed try_map is a no-op), amended: a try_map whose projection
\* fails hands the reference back with the same kind, guard, key and value
\* pointer, leaves the guards, the lock and every other reference as they
\* were, and itself changes no byte: the value differs from before only in
\* what f stored through its &mut argument before failing, which the f of
\* Ref and MappedRef, given a shared borrow, cannot do.
C6_FailedTryMap ==
    [][\A r \in Returned({"try_fail"}) : \A f \in Failing(r) : TryMapStep(r, f) =>
          /\ SameObject(refs'[r], refs[r])
          /\ refs'[r].comp = refs[r].comp
          /\ \A q \in RefIds \ {r} : refs'[q] = refs[q]
          /\ guards' = guards /\ lock' = lock
          /\ \A k \in Keys, i \in 1 .. ValLen : store'[k][i] # store[k][i] =>
                /\ f.poke /\ refs[r].kind \in WriteKinds
                /\ k = refs[r].k /\ i = refs[r].lo + 1 /\ i <= refs[r].hi
          /\ ValueOf(store', refs'[r]) = refs'[r].seen]_vars

\* A try_map on a MappedRefMut has just failed, and its f had stored a byte.
C6_Witness ==
    /\ last.op = "try_fail"
    /\ Live(last.r) /\ refs[last.r].kind = "MappedRefMut"
    /\ refs[last.r].hi - refs[last.r].lo = 1
    /\ Value(last.r) = <<1>>

\* C7 (guard survives projection): a map, or a try_map that succeeds, of a
\* Ref or RefMut returns a reference whose value() is what f answered for
\* the value, under the same guard, with the guards and the lock as they
\* were; and while a projected reference is live the lock admits no
\* conflicting acquisition.
C7_GuardSurvivesProjection ==
    /\ [][\A r \in Returned({"map"}) : \A f \in Succeeding(r) : FirstMapStep(r, f) =>
            /\ refs'[r].kind = IF refs[r].kind = "Ref" THEN "MappedRef" ELSE "MappedRefMut"
            /\ ValueOf(store', refs'[r]) =
                 BytesAt(StoreAfter(r, f), refs[r].k, CallF(r, f).lo, CallF(r, f).hi)
            /\ refs'[r].guard = refs[r].guard
            /\ guards' = guards /\ lock' = lock]_vars
    /\ [](\A r \in RefIds :
            /\ (Live(r) /\ refs[r].kind = "MappedRef") =>
                  ~CanLockExclusive(guards[refs[r].guard].shard)
            /\ (Live(r) /\ refs[r].kind = "MappedRefMut") =>
                  /\ ~CanLockExclusive(guards[refs[r].guard].shard)
                  /\ ~CanLockShared(guards[refs[r].guard].shard))

\* A projection has just narrowed a RefMut to the second byte of a value
\* whose bytes differ.
C7_Witness ==
    /\ last.op = "map"
    /\ Live(last.r) /\ refs[last.r].kind = "MappedRefMut"
    /\ refs[last.r].lo = 1 /\ refs[last.r].hi = 2
    /\ store[refs[last.r].k] = <<1, 0>>

\* C8 (chained projection): a reference reached by a chain of projections
\* exposes the slice of the acquired value that the composition of the
\* projections selects; each projection of a projected reference keeps the
\* guard and leaves the guards and the lock as they were.
C8_ChainedProjection ==
    /\ [](\A r \in RefIds : (Live(r) /\ refs[r].kind \in {"MappedRef", "MappedRefMut"}) =>
            /\ refs[r].lo = refs[r].comp.off
            /\ refs[r].hi = refs[r].comp.off + refs[r].comp.len
            /\ Value(r) = BytesAt(store, refs[r].k, refs[r].comp.off,
                                  refs[r].comp.off + refs[r].comp.len))
    /\ [][\A r \in Returned({"chain"}) :
            \/ /\ refs'[r].kind = refs[r].kind
               /\ refs'[r].guard = refs[r].guard
               /\ guards' = guards /\ lock' = lock
            \/ \A f \in Succeeding(r) : ~ChainStep(r, f)]_vars

\* The second projection of a chain has just returned the middle of what
\* the first had left.
C8_Witness ==
    /\ last.op = "chain"
    /\ Live(last.r) /\ refs[last.r].kind = "MappedRef"
    /\ refs[last.r].comp = [off |-> 1, len |-> 1]

\* The bytes of the stored values that differ between two stores.
Changed(st1, st2) ==
    {<<k, i>> \in Keys \X (1 .. ValLen) : st1[k][i] # st2[k][i]}
Region(ref) == {<<ref.k, i>> : i \in (ref.lo + 1) .. ref.hi}
SplitOk(r, n) == n <= refs[r].hi - refs[r].lo
\* The threads that hold nothing before a step and a Ref after it.
Fresh == {t \in Threads : Idle(t) /\ refs'[<<t, 1>>].kind = "Ref"}

\* C9 (split disjointness): RefMut::map_split changes no byte and its
\* halves are [lo, lo+n) and [lo+n, hi) of the value split; a write through
\* one half changes bytes of that half's region only and leaves what the
\* other half reads as it was; dropping a half changes no byte; a
\* reference of a fresh get reads the stored value, which is therefore the
\* value before the split with the written region updated.
C9_SplitDisjointness ==
    /\ [][\A r \in Returned({"split"}), n \in SplitPoints :
            (refs[r].kind = "RefMut" /\ SplitOk(r, n) /\ RefMutMapSplit(r, n)) =>
            /\ store' = store
            /\ refs'[r].lo = refs[r].lo /\ refs'[r].hi = refs[r].lo + n
            /\ refs'[Sibling(r)].lo = refs[r].lo + n
            /\ refs'[Sibling(r)].hi = refs[r].hi
            /\ ValueOf(store', refs'[r]) \o ValueOf(store', refs'[Sibling(r)])
                 = Value(r)]_vars
    /\ [][\A r \in Returned({"write"}), i \in 1 .. ValLen, b \in Bytes :
            (refs[r].kind = "RefMutMulti" /\ Write(r, i, b)) =>
               /\ Changed(store, store') \subseteq Region(refs[r])
               /\ ValueOf(store', refs'[r]) = [Value(r) EXCEPT ![i] = b]
               /\ Live(Sibling(r)) =>
                    /\ refs'[Sibling(r)] = refs[Sibling(r)]
                    /\ ValueOf(store', refs'[Sibling(r)]) = Value(Sibling(r))]_vars
    /\ [][store' = store \/ \A r \in RefIds : ~DropMulti(r)]_vars
    /\ [][\A t \in Fresh, k \in Lookups : Get(t, k) =>
            /\ store' = store
            /\ ValueOf(store', refs'[<<t, 1>>]) = store[k]]_vars
    /\ [](\A r \in RefIds : (Live(r) /\ refs[r].kind = "RefMutMulti" /\ Live(Sibling(r))) =>
            Region(refs[r]) \cap Region(refs[Sibling(r)]) = {})

\* A byte has just been written through one half of a split RefMut; the
\* other half is live, not empty, and reads what was inserted.
C9_Witness ==
    /\ last.op = "write"
    /\ Live(last.r) /\ refs[last.r].kind = "RefMutMulti"
    /\ Live(Sibling(last.r))
    /\ Value(last.r) = <<1>>
    /\ Value(Sibling(last.r)) = <<0>>

\* C10 (write-through of projected mutable references): a write through a
\* MappedRefMut stores the byte in the entry's value, at the offset the
\* chain of projections selects, and changes no other byte of the map;
\* dropping the reference changes no byte; a reference of a fresh get of
\* the key reads the stored value, the write included.
C10_WriteThrough ==
    /\ [][\A r \in Returned({"write"}), i \in 1 .. ValLen, b \in Bytes :
            (refs[r].kind = "MappedRefMut" /\ Write(r, i, b)) =>
               /\ store'[refs[r].k][refs[r].comp.off + i] = b
               /\ Changed(store, store') \subseteq {<<refs[r].k, refs[r].comp.off + i>>}
               /\ ValueOf(store', refs'[r]) = [Value(r) EXCEPT ![i] = b]]_vars
    /\ [][store' = store \/ \A r \in RefIds : ~DropOne(r)]_vars
    /\ [][\A t \in Fresh, k \in Lookups : Get(t, k) =>
            /\ refs'[<<t, 1>>].kind = "Ref" /\ refs'[<<t, 1>>].k = k
            /\ ValueOf(store', refs'[<<t, 1>>]) = store'[k]
            /\ store'[k] = store[k]]_vars
    /\ [](\A r \in RefIds : (Live(r) /\ refs[r].kind = "MappedRefMut") =>
            Value(r) = refs[r].seen)

\* A byte has just been written through a MappedRefMut that projects the
\* second byte of the value; the first byte is as inserted.
C10_Witness ==
    /\ last.op = "write"
    /\ Live(last.r) /\ refs[last.r].kind = "MappedRefMut"
    /\ refs[last.r].lo = 1 /\ refs[last.r].hi = 2
    /\ store[refs[last.r].k] = <<0, 1>>

\* The live references that stand in the way of what parked thread t asks
\* for: every reference of another thread for a writer, the mutable ones
\* for a reader.
Conflicting(t) ==
    {r \in RefIds : /\ r[1] # t /\ Live(r)
                    /\ guards[refs[r].guard].shard = guards[t].shard
                    /\ guards[t].mode = "want_read" => refs[r].kind \in WriteKinds}
Granted(t) == guards[t].mode \in {"read", "write"} /\ Live(<<t, 1>>)
\* The lock of shard s with one holder of the given mode less.
Released(s, mode) ==
    IF mode = "read" THEN [lock EXCEPT ![s].readers = @ - 1]
    ELSE [lock EXCEPT ![s].writer = FALSE]

\* C11 (release on drop and progress): a step in which a Ref, RefMut,
\* MappedRef or MappedRefMut, or the last live half of a split pair, goes
\* away takes its guard away and releases the shard lock in the mode the
\* guard held it, once; and a parked thread for which no conflicting
\* reference is live is eventually granted its guard, unless a conflicting
\* reference appears first.
C11_ReleaseOnDrop ==
    /\ [][\A r \in RefIds : (Live(r) /\ refs'[r] = NoRef) =>
            LET g == refs[r].guard
            IN IF refs[r].kind \in SharedKinds /\ Live(Sibling(r))
               THEN lock' = lock /\ guards'[g].mode = guards[g].mode
               ELSE /\ guards'[g] = NoGuard
                    /\ guards[g].mode = "read" => lock[guards[g].shard].readers > 0
                    /\ guards[g].mode = "write" => lock[guards[g].shard].writer
                    /\ lock' = Released(guards[g].shard, guards[g].mode)]_vars
    /\ \A t \in Threads :
          (Parked(t) /\ Conflicting(t) = {}) ~> (Granted(t) \/ Conflicting(t) # {})

\* A writer is parked behind the two halves of a split read reference of
\* another thread.
C11_Witness ==
    \E t \in Threads :
       /\ guards[t].mode = "want_write"
       /\ \E r \in Conflicting(t) :
             /\ refs[r].kind = "RefMulti" /\ Live(Sibling(r))

\* C12 (key immutability): a reference that an operation returns, or leaves
\* in place, has the key of the reference the operation was called on; the
\* second half of a split has the key of the reference that was split; so
\* every live reference has the key that was looked up, and the two halves
\* of a split have the same key.
C12_KeyImmutable ==
    /\ [][\A r \in RefIds : refs'[r] # NoRef =>
            /\ Live(r) => refs'[r].k = refs[r].k
            /\ (~Live(r) /\ r[2] = 2) =>
                  /\ Live(Sibling(r))
                  /\ refs'[r].k = refs[Sibling(r)].k
                  /\ refs'[Sibling(r)].k = refs[Sibling(r)].k
            /\ (~Live(r) /\ r[2] = 1) => (Idle(r[1]) /\ refs'[r].k \in Lookups)]_vars
    /\ [](\A r \in RefIds : Live(r) =>
            /\ Key(r) \in Lookups
            /\ Live(Sibling(r)) => Key(Sibling(r)) = Key(r))

\* A read reference to a value whose bytes have both been written has
\* just been split, and both halves are live.
C12_Witness ==
    /\ last.op = "split"
    /\ Live(last.r) /\ Live(Sibling(last.r))
    /\ refs[last.r].kind = "RefMulti"
    /\ Key(last.r) = "k1" /\ Key(Sibling(last.r)) = "k1"
    /\ refs[last.r].seen \o refs[Sibling(last.r)].seen = <<1, 1>>

\* C13 (non-blocking transformations): whatever the other threads hold or
\* are parked for, every transformation of a live reference is enabled
\* for every function and split point its holder may pass: map, try_map
\* and map_split of a Ref, these and downgrade of a RefMut, map and
\* try_map of a MappedRef and of a MappedRefMut.
C13_NonBlocking ==
    \A r \in RefIds :
       /\ Holds(r, "Ref") =>
             /\ \A f \in ConstProjs : ENABLED RefMap(r, f) /\ ENABLED RefTryMap(r, f)
             /\ \A n \in SplitPoints : ENABLED RefMapSplit(r, n)
       /\ Holds(r, "RefMut") =>
             /\ ENABLED RefMutDowngrade(r)
             /\ \A f \in Projs : ENABLED RefMutMap(r, f) /\ ENABLED RefMutTryMap(r, f)
             /\ \A n \in SplitPoints : ENABLED RefMutMapSplit(r, n)
       /\ Holds(r, "MappedRef") =>
             \A f \in ConstProjs : ENABLED MappedRefMap(r, f) /\ ENABLED MappedRefTryMap(r, f)
       /\ Holds(r, "MappedRefMut") =>
             \A f \in Projs : ENABLED MappedRefMutMap(r, f) /\ ENABLED MappedRefMutTryMap(r, f)

\* A thread holds a RefMut while another is parked for the write lock of
\* the same shard.
C13_Witness ==
    \E r \in RefIds, t \in Threads :
       /\ Holds(r, "RefMut") /\ t # r[1]
       /\ guards[t].mode = "want_write"
       /\ guards[t].shard = guards[refs[r].guard].shard

\* C14 (panic safety): a panic of f in map, try_map or map_split returns
\* no reference; the consumed reference is gone, its guard is gone with
\* it, and the shard lock has lost exactly the one holder the guard was,
\* so that it is free when no other guard holds it; and at all times the
\* lock counts exactly the guards that exist.
C14_PanicSafety ==
    /\ [][\A r \in Returned({"panic"}) :
            LET g == refs[r].guard
                s == guards[g].shard
            IN /\ Live(r) /\ refs'[r] = NoRef /\ refs'[Sibling(r)] = NoRef
               /\ guards' = [guards EXCEPT ![g] = NoGuard]
               /\ guards[g].mode = "read" => lock[s].readers > 0
               /\ guards[g].mode = "write" => lock[s].writer
               /\ lock' = Released(s, guards[g].mode)
               /\ (\A h \in GuardIds \ {g} : ~Held(h)) =>
                     lock'[s] = [readers |-> 0, writer |-> FALSE]]_vars
    /\ [](\A s \in Shards :
            /\ lock[s].readers = Cardinality(ReadGuards(s))
            /\ lock[s].writer <=> WriteGuards(s) # {})

\* A function that had stored a byte has just panicked; no reference is
\* left and the lock is free.
C14_Witness ==
    /\ last.op = "panic"
    /\ \A r \in RefIds : ~Live(r)
    /\ store["k1"] = <<1, 0>>
    /\ CanLockExclusive(ShardOf("k1"))

LockModes == {"read", "write"}

\* C15 (lock-state frame): a map, a try_map (Ok or Err) and a map_split
\* that return leave the lock of every shard, and the mode and shard of the
\* guard, exactly as they were; a step that changes the mode of a guard
\* that stays held is a downgrade, from write to read, and leaves the
\* shard with the writer gone and one reader more, never free.
C15_LockFrame ==
    /\ [][\A r \in Returned({"map", "chain", "try_fail", "split"}) :
            LET g == refs[r].guard
            IN /\ lock' = lock
               /\ refs'[r].guard = g
               /\ guards'[g].mode = guards[g].mode
               /\ guards'[g].shard = guards[g].shard
               /\ \A h \in GuardIds \ {g} : guards'[h] = guards[h]]_vars
    /\ [][\A g \in GuardIds :
            (/\ guards[g].mode \in LockModes /\ guards'[g].mode \in LockModes
             /\ guards'[g].mode # guards[g].mode) =>
               /\ last'.op = "downgrade" /\ refs[last'.r].guard = g
               /\ guards[g].mode = "write" /\ guards'[g].mode = "read"
               /\ lock' = [lock EXCEPT ![guards[g].shard] =
                             [readers |-> @.readers + 1, writer |-> FALSE]]
               /\ ~CanLockExclusive(guards[g].shard)']_vars

\* A read reference has just been split while another thread holds a read
\* guard of the shard: two readers before and after.
C15_Witness ==
    /\ last.op = "split"
    /\ refs[last.r].kind = "RefMulti" /\ Live(Sibling(last.r))
    /\ lock[guards[refs[last.r].guard].shard].readers = 2

\* The references that wrap guard g after a step.
WrappingAfter(g) == {q \in RefIds : refs'[q] # NoRef /\ refs'[q].guard = g}

\* C16 (single live mutable alias in try_map): when try_map of a RefMut or
\* MappedRefMut returns, one reference wraps the guard, in the place of
\* the one consumed: on Ok the MappedRefMut over what f answered, inside
\* the region of the consumed one, on Err the consumed one itself; and at
\* no time do two live mutable references reach the same byte.
C16_SingleMutableAlias ==
    /\ [][\A r \in Returned({"map", "chain", "try_fail"}) :
            refs[r].kind \in {"RefMut", "MappedRefMut"} =>
               \A f \in Projs : TryMapStep(r, f) =>
                  /\ WrappingAfter(refs[r].guard) = {r}
                  /\ IF CallF(r, f).ok
                     THEN /\ refs'[r].kind = "MappedRefMut"
                          /\ refs'[r].lo = CallF(r, f).lo
                          /\ refs'[r].hi = CallF(r, f).hi
                          /\ Region(refs'[r]) \subseteq Region(refs[r])
                     ELSE SameObject(refs'[r], refs[r])]_vars
    /\ [](\A r, q \in RefIds :
            (/\ r # q /\ Live(r) /\ Live(q)
             /\ refs[r].kind \in WriteKinds /\ refs[q].kind \in WriteKinds) =>
                Region(refs[r]) \cap Region(refs[q]) = {})

\* A try_map of a RefMut has just answered Err: the RefMut is the one live
\* reference of its thread.
C16_Witness ==
    /\ last.op = "try_fail"
    /\ Holds(last.r, "RefMut")
    /\ ~Live(Sibling(last.r))

\* C17 as stated: the Split state is reached only from a write-lock
\* acquisition: the reference that a map_split consumes is a RefMut.
C17_AsStated ==
    [][\A r \in Returned({"split"}) : refs[r].kind = "RefMut"]_vars

\* C17 (the Split state), amended: the Split state is reached from a read
\* lock as well as from a write lock.  The reference a map_split consumes
\* is a Ref or a RefMut, never a projected one; the halves are two
\* RefMulti over the read guard of a Ref and two RefMutMulti over the write
\* guard of a RefMut; the guard keeps its mode and has two owners.
C17_SplitFromEitherMode ==
    /\ [][\A r \in Returned({"split"}) :
            LET g == refs[r].guard
            IN /\ refs[r].kind \in {"Ref", "RefMut"}
               /\ guards[g].mode = (IF refs[r].kind = "Ref" THEN "read" ELSE "write")
               /\ guards'[g].mode = guards[g].mode
               /\ guards'[g].arc = 2
               /\ refs'[r].kind = (IF refs[r].kind = "Ref" THEN "RefMulti" ELSE "RefMutMulti")
               /\ refs'[Sibling(r)].kind = refs'[r].kind]_vars
    /\ [](\A r \in RefIds : (Live(r) /\ refs[r].kind \in SharedKinds) =>
            /\ guards[refs[r].guard].arc > 0
            /\ refs[r].kind = "RefMulti" <=> guards[refs[r].guard].mode = "read"
            /\ refs[r].kind = "RefMutMulti" <=> guards[refs[r].guard].mode = "write")

\* A Ref has just been split: two RefMulti share a guard that holds the
\* lock in read mode.
C17_Witness ==
    /\ last.op = "split"
    /\ Holds(last.r, "RefMulti") /\ Holds(Sibling(last.r), "RefMulti")
    /\ guards[refs[last.r].guard].mode = "read"
    /\ guards[refs[last.r].guard].arc = 2

\* C18 (terminal reference kind): a RefMulti or RefMutMulti stays what it
\* is, over the same guard, key and region, until it is dropped: no map,
\* try_map, map_split or downgrade is called on it.  A guard that is
\* shared keeps its mode and loses owners until it is released; it never
\* has more than two owners, and only the halves of one split wrap it.
C18_TerminalKind ==
    /\ [][\A r \in RefIds : (Live(r) /\ refs[r].kind \in SharedKinds) =>
            /\ refs'[r] = NoRef \/ SameObject(refs'[r], refs[r])
            /\ last'.op \in {"map", "chain", "try_fail", "split", "downgrade", "panic"}
                  => last'.r # r]_vars
    /\ [][\A g \in GuardIds : guards[g].arc > 0 =>
            \/ guards'[g] = NoGuard
            \/ /\ guards'[g].mode = guards[g].mode
               /\ guards'[g].arc \in {guards[g].arc, guards[g].arc - 1}
               /\ guards'[g].arc > 0]_vars
    /\ [](\A g \in GuardIds : guards[g].arc > 0 =>
            /\ guards[g].arc <= 2
            /\ Cardinality(LiveHalves(g)) <= 2
            /\ \A r \in RefIds : (Live(r) /\ refs[r].guard = g) =>
                  /\ refs[r].kind \in SharedKinds
                  /\ r[1] = g)

\* One half of a split RefMut has been dropped; a byte has just been
\* written through the other, the last owner of the guard.
C18_Witness ==
    /\ last.op = "write"
    /\ Holds(last.r, "RefMutMulti") /\ ~Live(Sibling(last.r))
    /\ guards[refs[last.r].guard].arc = 1
    /\ guards[refs[last.r].guard].mode = "write"

\* The owners of guard g: the field of the one reference that has it, or
\* the strong count of the Arc it was moved into.
OwnerCount(g) ==
    IF ~Held(g) THEN 0 ELSE IF guards[g].arc = 0 THEN 1 ELSE guards[g].arc
Wrapping(g) == {r \in RefIds : Live(r) /\ refs[r].guard = g}

\* C19 (owner count): the owners of a guard are as many as the live
\* references that wrap it: one for a Ref, RefMut, MappedRef or
\* MappedRefMut, two when map_split returns, then one, then none.  The
\* count goes up only from none to one with the acquisition and from one to
\* two with map_split; the guard is released in the step that takes the
\* count to none, and the lock counts exactly the guards that have owners.
C19_OwnerCount ==
    /\ [](\A g \in GuardIds :
            /\ OwnerCount(g) = Cardinality(Wrapping(g))
            /\ OwnerCount(g) <= 2
            /\ \A r \in Wrapping(g) :
                  refs[r].kind \notin SharedKinds => OwnerCount(g) = 1)
    /\ [][\A g \in {h \in GuardIds : guards'[h] # guards[h]} :
            /\ OwnerCount(g)' > OwnerCount(g) =>
                  \/ OwnerCount(g) = 0 /\ OwnerCount(g)' = 1
                  \/ /\ OwnerCount(g) = 1 /\ OwnerCount(g)' = 2
                     /\ last'.op = "split" /\ refs[last'.r].guard = g
            /\ (last'.op = "split" /\ refs[last'.r].guard = g) => OwnerCount(g)' = 2
            /\ OwnerCount(g)' < OwnerCount(g) => OwnerCount(g)' = OwnerCount(g) - 1
            /\ (OwnerCount(g) > 0 /\ OwnerCount(g)' = 0) =>
                  lock' = Released(guards[g].shard, guards[g].mode)
            /\ (OwnerCount(g) > 0 /\ OwnerCount(g)' > 0) =>
                  lock'[guards[g].shard] # [readers |-> 0, writer |-> FALSE]]_vars
    /\ [](\A s \in Shards :
            /\ lock[s].readers = Cardinality({g \in ReadGuards(s) : OwnerCount(g) > 0})
            /\ lock[s].writer <=> \E g \in WriteGuards(s) : OwnerCount(g) > 0)

\* A RefMut has just been split: its write guard has two owners, the two
\* live halves.
C19_Witness ==
    /\ last.op = "split"
    /\ Holds(last.r, "RefMutMulti") /\ Holds(Sibling(last.r), "RefMutMulti")
    /\ OwnerCount(refs[last.r].guard) = 2
    /\ Wrapping(refs[last.r].guard) = {last.r, Sibling(last.r)}

\* The threads that hold nothing and may call get or get_mut.
IdleThreads == {t \in Threads : Idle(t)}

\* C20 (read mode after downgrade): when downgrade returns, the shard lock
\* has no writer and one reader, the returned Ref.  In every state the
\* readers the lock counts are the read guards that exist, one each; while
\* a Ref, MappedRef or RefMulti is live every other thread can take a read
\* guard of the shard, and none can take the write guard; a thread can
\* take the write guard only when no reference of the shard, of any
\* thread, is live.
C20_ReadModeAfterDowngrade ==
    /\ [][\A r \in Returned({"downgrade"}) :
            LET s == guards[refs[r].guard].shard
            IN /\ refs'[r].kind = "Ref"
               /\ guards'[refs[r].guard].mode = "read"
               /\ lock'[s] = [readers |-> 1, writer |-> FALSE]]_vars
    /\ [](\A s \in Shards : lock[s].readers = Cardinality(ReadGuards(s)))
    /\ [](\A r \in RefIds : (Live(r) /\ refs[r].kind \in ReadKinds) =>
            \A t \in IdleThreads, k \in Lookups :
               ShardOf(k) = guards[refs[r].guard].shard =>
                  ENABLED Get(t, k) /\ ~ENABLED GetMut(t, k))
    /\ [](\A t \in IdleThreads, k \in Lookups :
            ENABLED GetMut(t, k) =>
               \A r \in RefIds : Live(r) => guards[refs[r].guard].shard # ShardOf(k))

\* downgrade has just returned a Ref that reads the byte written before
\* it; another thread holds nothing and can take a read guard.
C20_Witness ==
    /\ last.op = "downgrade"
    /\ Holds(last.r, "Ref") /\ Value(last.r) = <<1, 0>>
    /\ lock[guards[refs[last.r].guard].shard] = [readers |-> 1, writer |-> FALSE]
    /\ \E t \in IdleThreads : t # last.r[1]

====
